---- MODULE Spec2Model ----
(***************************************************************************)
(* otio-premiereproject: the Adobe Premiere project adapter                *)
(* (src/otio_premiereproject/adapter.py).                                  *)
(*                                                                         *)
(* The document is the parsed XML tree: the children of the root element, *)
(* in document order.  Objects refer to each other by the attributes      *)
(* ObjectRef (-> ObjectID) and ObjectURef (-> ObjectUID).  The conversion *)
(* is modelled as the recursive walk of _stack_from_sequence_node with an *)
(* explicit call stack; every raise unwinds the whole conversion.         *)
(*                                                                         *)
(* Ticks are counted in units of 2540160000 Premiere ticks (1/100 s), so  *)
(* that the arithmetic fits the model checker's integers.  Seconds are    *)
(* kept exact: a time in seconds is its tick count over                   *)
(* PREMIERE_TICKS_PER_SECOND (the code uses Python 3 true division and    *)
(* floats; the model uses exact rationals).                               *)
(***************************************************************************)
EXTENDS Integers, Sequences, FiniteSets, TLC

VARIABLES
    doc,            \* self._root: the root's children, in document order
    entry,          \* which entry point the caller used
    sequence_name,  \* read_from_string's sequence_name argument
    frame_rate,     \* self._frame_rate: the caller's override (or None)
    object_cache,   \* self._object_cache
    callstack,      \* active _stack_from_sequence_node calls, outermost first
    seq_iter,       \* to_collection: root Sequence nodes already converted
    collection,     \* to_collection: the SerializableCollection being built
    result,         \* what the entry point returned or raised
    resolved,       \* history: how often (attr, id) was resolved to a node
    scans,          \* history: how often the document was scanned per id
    calls           \* history: number of direct Object Index calls made

vars == <<doc, entry, sequence_name, frame_rate, object_cache, callstack,
          seq_iter, collection, result, resolved, scans, calls>>

----------------------------------------------------------------------------
(* Bounds of the model *)

\* track item positions (Start, End) range over 0..MaxTick tick units
MaxTick == 5
\* the active call chain is explored up to this depth
MaxDepth == 4
\* direct _get_object/_dereference calls made by a caller of the index
MaxCalls == 3

----------------------------------------------------------------------------
(* Tick/Time converter *)

\* src line 11, in units of 2540160000 ticks
PREMIERE_TICKS_PER_SECOND == 100

None == "None"

RECURSIVE GCD(_, _)
GCD(a, b) == IF b = 0 THEN a ELSE GCD(b, a % b)

Abs(x) == IF x < 0 THEN -x ELSE x

\* an exact rational n/d (d > 0), in lowest terms
Rat(n, d) ==
    LET g == GCD(Abs(n), d)
    IN  IF n = 0 THEN [n |-> 0, d |-> 1] ELSE [n |-> n \div g, d |-> d \div g]

\* premiere_ticks_to_fps(t) = PREMIERE_TICKS_PER_SECOND / t
premiere_ticks_to_fps(t) == Rat(PREMIERE_TICKS_PER_SECOND, t)

\* RationalTime(premiere_ticks_to_secs(t)).rescaled_to(rate): the value
\* t / PREMIERE_TICKS_PER_SECOND * rate, not rounded
rescaled_to(t, rate) ==
    [value |-> Rat(t * rate.n, PREMIERE_TICKS_PER_SECOND * rate.d), rate |-> rate]

\* Python 3 round(): to the nearest integer, ties to the even one
round(v) ==
    LET q == v.n \div v.d
        r == v.n % v.d
    IN  IF 2 * r < v.d THEN q
        ELSE IF 2 * r > v.d THEN q + 1
        ELSE IF q % 2 = 0 THEN q ELSE q + 1

\* round_rational_time(rt) = RationalTime(round(rt.value), rt.rate)
round_rational_time(rt) == [value |-> Rat(round(rt.value), 1), rate |-> rt.rate]

----------------------------------------------------------------------------
(* The document *)

\* a reference element: present is whether the element exists under its
\* parent, ref/uref are its ObjectRef/ObjectURef attributes ("" when the
\* attribute is missing), at identifies the element itself
NoElem == [present |-> FALSE, ref |-> "", uref |-> "", at |-> ""]

\* a child of the root.  len is its number of children; the other fields are
\* the attributes and descendants the adapter reads, named after their paths
Blank ==
    [tag |-> "Removed", oid |-> "", uid |-> "", len |-> 1,
     Name |-> "",
     TrackGroups |-> <<>>,            \* TrackGroups/TrackGroup/Second
     FrameRate |-> 0,                 \* TrackGroup/FrameRate
     Tracks |-> <<>>,                 \* TrackGroup/Tracks/Track
     TrackItems |-> <<>>,             \* ClipTrack/ClipItems/TrackItems/TrackItem
     hasItem |-> FALSE,               \* ClipTrackItem/TrackItem exists
     Start |-> 0, End |-> 0,          \* ClipTrackItem/TrackItem/Start, End
     SubClip |-> NoElem,              \* ClipTrackItem/SubClip
     Clip |-> NoElem,                 \* Clip (of a SubClip)
     hasClip |-> FALSE,               \* Clip (of a VideoClip/AudioClip) exists
     InPoint |-> 0, OutPoint |-> 0,   \* Clip/InPoint, Clip/OutPoint
     PlaybackSpeed |-> None,          \* Clip/PlaybackSpeed text, None if absent
     Source |-> NoElem,               \* Clip/Source
     Media |-> NoElem,                \* MediaSource/Media
     Sequence |-> NoElem,             \* SequenceSource/Sequence
     Title |-> "",
     FileKey |-> "",                  \* FileKey text ("" when empty)
     MediaStart |-> [present |-> FALSE, text |-> 0, len |-> 0],  \* Start
     VideoStream |-> NoElem, AudioStream |-> NoElem,
     ImporterPrefs |-> None,
     Duration |-> 0]

\* the identifier a node is declared with; the track t1 may be declared with
\* an ObjectUID whose value is also another node's ObjectID
IdOf(p, name) == IF name = "t1" THEN p.uidT1 ELSE name

ORef(p, target, at) ==
    [present |-> TRUE, ref |-> IF target \in p.noref THEN "" ELSE IdOf(p, target),
     uref |-> "", at |-> at]

URef(p, target, at) ==
    [present |-> TRUE, ref |-> "",
     uref |-> IF target \in p.noref THEN "" ELSE IdOf(p, target), at |-> at]

RECURSIVE ORefs(_, _, _)
ORefs(p, targets, at) ==
    IF targets = <<>> THEN <<>>
    ELSE <<ORef(p, Head(targets), at \o "/" \o Head(targets))>>
         \o ORefs(p, Tail(targets), at)

RECURSIVE URefs(_, _, _)
URefs(p, targets, at) ==
    IF targets = <<>> THEN <<>>
    ELSE <<URef(p, Head(targets), at \o "/" \o Head(targets))>>
         \o URefs(p, Tail(targets), at)

ONode(p, name, tag) == [Blank EXCEPT !.tag = tag, !.oid = IdOf(p, name)]
UNode(p, name, tag) == [Blank EXCEPT !.tag = tag, !.uid = IdOf(p, name)]

\* the faults of a document: a node that is missing, or has no children
Faulted(p, name, node) ==
    IF name \in p.absent THEN Blank
    ELSE IF name \in p.childless THEN [node EXCEPT !.len = 0]
    ELSE node

TrackTag(p, name, tag) == IF name \in p.badtag THEN "DataClipTrack" ELSE tag

SequenceNode(p, name, title, groups) ==
    Faulted(p, name, [UNode(p, name, "Sequence") EXCEPT
        !.Name = title, !.TrackGroups = ORefs(p, groups, name)])

TrackGroupNode(p, name, tag, interval, tracks) ==
    Faulted(p, name, [ONode(p, name, tag) EXCEPT
        !.FrameRate = interval, !.Tracks = URefs(p, tracks, name)])

TrackNode(p, name, tag, items) ==
    Faulted(p, name, [UNode(p, name, TrackTag(p, name, tag)) EXCEPT
        !.TrackItems = ORefs(p, items, name)])

TrackItemNode(p, name, tag, start, end, subclip) ==
    Faulted(p, name, [ONode(p, name, tag) EXCEPT
        !.hasItem = TRUE, !.Start = start, !.End = end,
        !.SubClip = ORef(p, subclip, name)])

SubClipNode(p, name, clip) ==
    Faulted(p, name, [ONode(p, name, "SubClip") EXCEPT !.Clip = ORef(p, clip, name)])

ClipNode(p, name, tag, in, out, speed, source) ==
    Faulted(p, name, [ONode(p, name, tag) EXCEPT
        !.hasClip = TRUE, !.InPoint = in, !.OutPoint = out,
        !.PlaybackSpeed = speed, !.Source = ORef(p, source, name)])

\* a clip source: a media source when its target is a media object, a
\* sequence source when it is a sequence
SourceNode(p, name, target) ==
    Faulted(p, name,
        IF target \in {"sA", "sB"}
        THEN [ONode(p, name, "VideoSequenceSource") EXCEPT
                 !.Sequence = URef(p, target, name)]
        ELSE [ONode(p, name, "VideoMediaSource") EXCEPT
                 !.Media = URef(p, target, name)])

MediaNode(p, name, title, filekey, start, prefs) ==
    Faulted(p, name, [UNode(p, name, "Media") EXCEPT
        !.Title = title, !.FileKey = filekey, !.MediaStart = start,
        !.ImporterPrefs = prefs,
        !.VideoStream = ORef(p, "vs1", name \o "/VideoStream"),
        !.AudioStream = ORef(p, "as1", name \o "/AudioStream")])

StreamNode(p, name, tag, duration) ==
    Faulted(p, name, [ONode(p, name, tag) EXCEPT !.Duration = duration])

\* A project with two sequences.  Sequence sA has the track groups
\* p.groupsA; the video track t1 holds the items i1 and i2, the audio track
\* t2 holds i3.  Sequence sB has the video track group g3 with the track t3
\* holding i4.  i1 and i3 show the clip c1 of the media file m1; i2 shows the
\* clip c2, whose source is p.src2: the file m1, the generator m2, or a
\* sequence (sB nested in sA, or sA nested in itself); i4 shows p.sub4.
MkDoc(p) ==
    << SequenceNode(p, "sA", p.nameA, p.groupsA),
       SequenceNode(p, "sB", p.nameB, <<"g3">>),
       TrackGroupNode(p, "g1", "VideoTrackGroup", p.int1, <<"t1">>),
       TrackGroupNode(p, "g2", "AudioTrackGroup", p.int1, <<"t2">>),
       TrackGroupNode(p, "g3", "VideoTrackGroup", p.int3, <<"t3">>),
       TrackNode(p, "t1", "VideoClipTrack", p.itemsT1),
       TrackNode(p, "t2", "AudioClipTrack", <<"i3">>),
       TrackNode(p, "t3", "VideoClipTrack", <<"i4">>),
       TrackItemNode(p, "i1", "VideoClipTrackItem", p.s1, p.e1, "sc1"),
       TrackItemNode(p, "i2", "VideoClipTrackItem", p.s2, p.e2, "sc2"),
       TrackItemNode(p, "i3", "AudioClipTrackItem", 0, p.e1, "sc1"),
       TrackItemNode(p, "i4", "VideoClipTrackItem", 0, 4, p.sub4),
       SubClipNode(p, "sc1", "c1"),
       SubClipNode(p, "sc2", "c2"),
       ClipNode(p, "c1", "VideoClip", p.in1, p.in1 + p.e1 - p.s1, p.speed, "ms1"),
       ClipNode(p, "c2", "VideoClip", 0, p.e2 - p.s2, None, "ms2"),
       SourceNode(p, "ms1", "m1"),
       SourceNode(p, "ms2", p.src2),
       MediaNode(p, "m1", "a.mov", "1234-5678", p.start1, None),
       MediaNode(p, "m2", "Black Video", "", [present |-> FALSE, text |-> 0, len |-> 0], "QUJD"),
       StreamNode(p, "vs1", "VideoStream", p.durV),
       StreamNode(p, "as1", "AudioStream", p.durA) >>

\* the well-formed project the families of documents below vary
P0 ==
    [nameA |-> "Seq1", nameB |-> "Seq2",
     groupsA |-> <<"g1">>, int1 |-> 4, int3 |-> 4,
     itemsT1 |-> <<"i1", "i2">>,
     s1 |-> 0, e1 |-> 4, s2 |-> 4, e2 |-> 8,
     in1 |-> 0, speed |-> None, src2 |-> "m1", sub4 |-> "sc1",
     start1 |-> [present |-> TRUE, text |-> 4, len |-> 0],
     durV |-> 8, durA |-> 8,
     absent |-> {}, childless |-> {}, noref |-> {}, badtag |-> {},
     uidT1 |-> "t1"]

----------------------------------------------------------------------------
(* Object Index: _get_object, _dereference, _dereference_all *)

\* The index operations thread the cache and the history through a record
\* ix = [cache, resolved, scans]; a node is its position under the root.

Error(type, msg, a, b) == [type |-> type, msg |-> msg, a |-> a, b |-> b]
ParseError(msg, a, b) == Error("AdobePremiereProjectParseError", msg, a, b)
NoError == Error("", "", "", "")

Ok(node, ix) == [ok |-> TRUE, node |-> node, nodes |-> <<>>, error |-> NoError, ix |-> ix]
OkAll(nodes, ix) == [ok |-> TRUE, node |-> 0, nodes |-> nodes, error |-> NoError, ix |-> ix]
Raise(err, ix) == [ok |-> FALSE, node |-> 0, nodes |-> <<>>, error |-> err, ix |-> ix]

AttrOf(node, attr_name) == IF attr_name = "ObjectID" THEN node.oid ELSE node.uid

\* self._root.find("*[@attr_name='id_']"): the first child of the root that
\* carries the attribute with that value; 0 stands for None
Find(d, attr_name, id_) ==
    LET hits == {n \in 1..Len(d) : AttrOf(d[n], attr_name) = id_}
    IN  IF hits = {} THEN 0 ELSE CHOOSE n \in hits : \A m \in hits : n <= m

Scanned(ix, id_) ==
    [ix EXCEPT !.scans = IF id_ \in DOMAIN ix.scans
                         THEN [ix.scans EXCEPT ![id_] = @ + 1]
                         ELSE ix.scans @@ (id_ :> 1)]

Resolved(ix, attr_name, id_, node) ==
    [ix EXCEPT !.resolved =
        IF <<attr_name, id_, node>> \in DOMAIN ix.resolved
        THEN [ix.resolved EXCEPT ![<<attr_name, id_, node>>] = @ + 1]
        ELSE ix.resolved @@ (<<attr_name, id_, node>> :> 1)]

\* the cache key of a resolution (lines 90, 96, 97): the identifier alone
CacheKey(id_, attr_name) == id_

\* a resolution consults the cache before the document (line 90)
CacheHit_never(ix, key) == FALSE

CacheHit(ix, key) == key \in DOMAIN ix.cache

_get_object(d, ix, id_, attr_name) ==
    LET key == CacheKey(id_, attr_name) IN
    IF CacheHit(ix, key)
    THEN Ok(ix.cache[key], Resolved(ix, attr_name, id_, ix.cache[key]))
    ELSE LET node == Find(d, attr_name, id_)
             ix1 == Scanned(ix, key)
         IN  IF node = 0 \/ d[node].len = 0
             THEN Raise(ParseError("Couldn't find object", attr_name, id_), ix1)
             ELSE Ok(node, Resolved([ix1 EXCEPT !.cache =
                                        (key :> node) @@ ix1.cache],
                                    attr_name, id_, node))

_dereference(d, ix, node) ==
    IF ~node.present
    THEN Raise(Error("AttributeError", "'NoneType' object has no attribute 'get'", "", ""), ix)
    ELSE IF node.ref # "" THEN _get_object(d, ix, node.ref, "ObjectID")
    ELSE IF node.uref # "" THEN _get_object(d, ix, node.uref, "ObjectUID")
    ELSE Raise(ParseError("Node has neither ObjectRef nor ObjectURef attribute",
                          node.at, ""), ix)

RECURSIVE _dereference_all(_, _, _)

\* the list comprehension of lines 112-115, after its first element r
DereferenceRest(d, r, rest) ==
    IF ~r.ok THEN r
    ELSE IF ~rest.ok THEN rest
    ELSE OkAll(<<r.node>> \o rest.nodes, rest.ix)

DereferenceNext(d, r, nodes) ==
    IF ~r.ok THEN r ELSE DereferenceRest(d, r, _dereference_all(d, r.ix, nodes))

_dereference_all(d, ix, nodes) ==
    IF nodes = <<>> THEN OkAll(<<>>, ix)
    ELSE DereferenceNext(d, _dereference(d, ix, Head(nodes)), Tail(nodes))

Index == [cache |-> object_cache, resolved |-> resolved, scans |-> scans]

SetIndex(ix) ==
    /\ object_cache' = ix.cache
    /\ resolved' = ix.resolved
    /\ scans' = ix.scans

----------------------------------------------------------------------------
(* Output model, as far as the adapter populates it *)

RationalTime(v, rate) == [value |-> Rat(v, 1), rate |-> rate]
TimeRange(start_time, duration) == [start_time |-> start_time, duration |-> duration]
NoRate == [n |-> 0, d |-> 1]
NoRange == TimeRange(RationalTime(0, NoRate), RationalTime(0, NoRate))

\* otio.schema.Stack(name=...); src remembers the sequence node it was
\* reconstructed from (history, not a field of the output model)
Stack(name, src) ==
    [type |-> "Stack", name |-> name, metadata |-> <<>>, children |-> <<>>,
     has_range |-> FALSE, source_range |-> NoRange, effects |-> <<>>,
     media_reference |-> <<>>, src |-> src]

Track(kind) == [type |-> "Track", kind |-> kind, children |-> <<>>]

\* otio.schema.Gap(duration=d): source_range = TimeRange(0, d)
Gap(duration) ==
    [type |-> "Gap", name |-> "", metadata |-> <<>>, children |-> <<>>,
     has_range |-> TRUE,
     source_range |-> TimeRange(RationalTime(0, duration.rate), duration),
     effects |-> <<>>, media_reference |-> <<>>, src |-> 0]

Clip(media_reference) ==
    [type |-> "Clip", name |-> "", metadata |-> <<>>, children |-> <<>>,
     has_range |-> FALSE, source_range |-> NoRange, effects |-> <<>>,
     media_reference |-> <<media_reference>>, src |-> 0]

LinearTimeWarp(time_scalar) == [type |-> "LinearTimeWarp", time_scalar |-> time_scalar]

Timeline(stack) == [name |-> stack.name, tracks |-> stack.children]

----------------------------------------------------------------------------
(* Media Reference Builder *)

\* Element truth value (line 242, "if start_node:"): an Element is true
\* when it has children; None is false
ElementTruth(e) == e.present /\ e.len > 0

\* lines 241-249: the start of the available range
MediaStartTime(start_node, rate) ==
    IF ElementTruth(start_node) THEN rescaled_to(start_node.text, rate)
    ELSE RationalTime(0, rate)

\* lines 261-277, given the resolution r of the stream reference
ExternalReference(d, media_node, rate, r) ==
    IF ~r.ok THEN r
    ELSE [r EXCEPT !.nodes = <<
            [type |-> "ExternalReference",
             target_url |-> media_node.Title,
             available_range |->
                 TimeRange(MediaStartTime(media_node.MediaStart, rate),
                           rescaled_to(d[r.node].Duration, rate)),
             metadata |-> [premiere |->
                 [media_start |-> IF ElementTruth(media_node.MediaStart)
                                  THEN <<media_node.MediaStart.text>> ELSE <<>>,
                  media_duration |-> d[r.node].Duration]]] >>]

\* lines 250-260: the stream element of the track's kind
StreamNodeName(media_node, track_kind) ==
    IF track_kind = "Video" THEN media_node.VideoStream ELSE media_node.AudioStream

\* _external_reference_from_media_node (lines 239-277); the track kind is
\* Video or Audio here, the only kinds lines 146-155 let through
_external_reference_from_media_node(d, ix, media_node, track_kind, rate) ==
    ExternalReference(d, media_node, rate,
        _dereference(d, ix, StreamNodeName(media_node, track_kind)))

\* base64.b64decode of the importer preferences found in the documents
b64decode(text) == IF text = "QUJD" THEN "ABC" ELSE "?"

\* _generator_reference_from_media_node (lines 279-291)
_generator_reference_from_media_node(media_node) ==
    [type |-> "GeneratorReference",
     name |-> media_node.Title,
     generator_kind |-> "premiere_generator",
     parameters |-> IF media_node.ImporterPrefs # None
                    THEN <<b64decode(media_node.ImporterPrefs)>> ELSE <<>>]

----------------------------------------------------------------------------
(* Sequence Reconstructor: _stack_from_sequence_node (lines 117-237) *)

AttributeError(what) ==
    Error("AttributeError", "'NoneType' object has no attribute", what, "")

\* lines 122-129: the FrameRate of the first VideoTrackGroup among the
\* resolved track group nodes; <<>> stands for None
RECURSIVE premiere_sequence_frame_rate(_, _)
premiere_sequence_frame_rate(d, nodes) ==
    IF nodes = <<>> THEN <<>>
    ELSE IF d[Head(nodes)].tag = "VideoTrackGroup" THEN <<d[Head(nodes)].FrameRate>>
         ELSE premiere_sequence_frame_rate(d, Tail(nodes))

\* lines 134-141: the frame rate the sequence is quantized at
EffectiveFrameRate_document_first(override, interval) ==
    IF interval # <<>> THEN premiere_ticks_to_fps(interval[1])
    ELSE IF override # <<>> THEN override[1]
    ELSE Rat(25, 1)

EffectiveFrameRate(override, interval) ==
    IF override # <<>> THEN override[1]
    ELSE IF interval # <<>> THEN premiere_ticks_to_fps(interval[1])
    ELSE Rat(25, 1)

\* lines 146-155: the kind of a track, "" when the tag is unknown
TrackKind_lenient(tag) == IF tag = "AudioClipTrack" THEN "Audio" ELSE "Video"

TrackKind(tag) ==
    IF tag = "VideoClipTrack" THEN "Video"
    ELSE IF tag = "AudioClipTrack" THEN "Audio"
    ELSE ""

\* lines 118, 130-141: the Stack and the locals of a call whose track group
\* nodes are resolved
NewFrame(d, override, sequence_node, nodes, interval) ==
    [sequence_node |-> sequence_node,
     stack |-> IF interval # <<>>
               THEN [Stack(d[sequence_node].Name, sequence_node) EXCEPT
                        !.metadata = ("premiere" :> [frame_rate |-> interval[1]])]
               ELSE Stack(d[sequence_node].Name, sequence_node),
     frame_rate |-> EffectiveFrameRate(override, interval),
     top_track_group_nodes |-> nodes, gi |-> 0,
     track_nodes |-> <<>>, ti |-> 0,
     track |-> Track(""),
     item_nodes |-> <<>>, ii |-> 0,
     last_track_end |-> 0,
     clip_in |-> RationalTime(0, NoRate), clip_node |-> 0,
     pc |-> "groups"]

EnterResolved(d, override, sequence_node, r) ==
    IF ~r.ok THEN r
    ELSE [r EXCEPT !.nodes = <<NewFrame(d, override, sequence_node, r.nodes,
                                         premiere_sequence_frame_rate(d, r.nodes))>>]

\* lines 118-141: the start of a call, up to the loop over the track groups.
\* The result carries the new call's frame in nodes.
Enter(d, ix, override, sequence_node) ==
    IF d[sequence_node].len = 0
    THEN Raise(AttributeError("text"), ix)      \* find("Name") is None
    ELSE EnterResolved(d, override, sequence_node,
             _dereference_all(d, ix, d[sequence_node].TrackGroups))

\* lines 169-178: the track with the Gap that closes the hole before an item
\* starting at track_start.  last_track_end and track_start are seconds in
\* the code; both are kept as ticks here, which orders them the same way.
GapBefore_always(track, last_track_end, track_start, rate) ==
    [track EXCEPT !.children = Append(@,
        Gap(round_rational_time(rescaled_to(track_start - last_track_end, rate))))]

GapBefore(track, last_track_end, track_start, rate) ==
    IF track_start > last_track_end
    THEN [track EXCEPT !.children = Append(@,
             Gap(round_rational_time(rescaled_to(track_start - last_track_end, rate))))]
    ELSE track

\* lines 179-211: from the track item down to what occupies it.  The result
\* carries in nodes <<what, clip_node, occupant>>: what is "clip" with the
\* Clip built for a media object, or "sequence" with the nested sequence
\* node to reconstruct.  Each step takes the resolution r of the reference
\* before it.
ResolveSequence(clip_node, r) ==
    IF ~r.ok THEN r ELSE [r EXCEPT !.nodes = <<"sequence", clip_node, r.node>>]

ResolveExternal(clip_node, r) ==
    IF ~r.ok THEN r ELSE [r EXCEPT !.nodes = <<"clip", clip_node, Clip(r.nodes[1])>>]

\* lines 193-205
ResolveMedia(d, clip_node, r, track_kind, rate) ==
    IF ~r.ok THEN r
    ELSE IF d[r.node].FileKey # ""
    THEN ResolveExternal(clip_node,
             _external_reference_from_media_node(d, r.ix, d[r.node], track_kind, rate))
    ELSE [r EXCEPT !.nodes =
             <<"clip", clip_node, Clip(_generator_reference_from_media_node(d[r.node]))>>]

\* lines 191-193, 206-210
ResolveSource(d, clip_node, r, track_kind, rate) ==
    IF ~r.ok THEN r
    ELSE IF d[r.node].Media.present
    THEN ResolveMedia(d, clip_node, _dereference(d, r.ix, d[r.node].Media),
                      track_kind, rate)
    ELSE ResolveSequence(clip_node, _dereference(d, r.ix, d[r.node].Sequence))

\* lines 182-191
ResolveClip(d, r, track_kind, rate) ==
    IF ~r.ok THEN r
    ELSE IF ~d[r.node].hasClip THEN Raise(AttributeError("find"), r.ix)
    ELSE ResolveSource(d, r.node, _dereference(d, r.ix, d[r.node].Source),
                       track_kind, rate)

\* lines 179-182
ResolveSubClip(d, r, track_kind, rate) ==
    IF ~r.ok THEN r
    ELSE ResolveClip(d, _dereference(d, r.ix, d[r.node].Clip), track_kind, rate)

ResolveItem(d, ix, item, track_kind, rate) ==
    ResolveSubClip(d, _dereference(d, ix, item.SubClip), track_kind, rate)

\* lines 186-190
ClipIn(d, clip_node, rate) ==
    round_rational_time(rescaled_to(d[clip_node].InPoint, rate))

\* lines 212-235: the occupant (a Clip, or the Stack of a nested sequence)
\* gets its source range, its tick provenance and its speed effect
Placed(clip, item, cn, clip_in, rate) ==
    [clip EXCEPT
        !.has_range = TRUE,
        !.source_range = TimeRange(clip_in,
            round_rational_time(rescaled_to(item.End - item.Start, rate))),
        !.metadata = ("premiere" :>
            [track_start |-> item.Start, track_end |-> item.End,
             clip_in |-> cn.InPoint, clip_out |-> cn.OutPoint]) @@ @,
        !.effects = IF cn.PlaybackSpeed # None
                    THEN Append(@, LinearTimeWarp(cn.PlaybackSpeed)) ELSE @]

\* lines 234-235: it is appended to the track
Place_keep_end(d, f, clip, clip_node, clip_in) ==
    [f EXCEPT !.track.children =
                  Append(@, Placed(clip, d[f.item_nodes[f.ii + 1]], d[clip_node],
                                   clip_in, f.frame_rate)),
              !.ii = @ + 1]

Place(d, f, clip, clip_node, clip_in) ==
    [f EXCEPT !.track.children =
                  Append(@, Placed(clip, d[f.item_nodes[f.ii + 1]], d[clip_node],
                                   clip_in, f.frame_rate)),
              !.last_track_end = d[f.item_nodes[f.ii + 1]].End,
              !.ii = @ + 1]

----------------------------------------------------------------------------
(* The documents and calls explored *)

Case(p, e, name, rate) == [p |-> p, entry |-> e, name |-> name, rate |-> rate]

NoOverride == <<>>
Override(fps) == <<Rat(fps, 1)>>

OneSequence == [P0 EXCEPT !.absent = {"sB"}]

\* one sequence, one video track, two items at every pair of positions
TimingCases ==
    { Case([OneSequence EXCEPT !.s1 = a, !.e1 = b, !.s2 = c, !.e2 = e, !.int1 = i],
           "to_collection", None, r) :
        a \in 0..MaxTick, b \in 0..MaxTick, c \in 0..MaxTick, e \in 0..MaxTick,
        i \in {2, 4}, r \in {NoOverride, Override(10)} }

\* the track groups of a sequence, the intervals and the override
RateCases ==
    { Case([P0 EXCEPT !.groupsA = g, !.int1 = i, !.int3 = j, !.src2 = s],
           "to_collection", None, r) :
        g \in {<<>>, <<"g1">>, <<"g2">>, <<"g2", "g1">>, <<"g1", "g2">>,
               <<"g1", "g3">>, <<"g3", "g1">>},
        i \in {4, 5}, j \in {4, 8}, s \in {"m1", "sB"},
        r \in {NoOverride, Override(10), Override(25)} }

\* up to two faults anywhere in a project whose sequence sA nests sB
NodeNames ==
    {"sA", "sB", "g1", "g2", "g3", "t1", "t2", "t3", "i1", "i2", "i3", "i4",
     "sc1", "sc2", "c1", "c2", "ms1", "ms2", "m1", "m2", "vs1", "as1"}

Faults ==
    ({"absent", "childless", "noref"} \X NodeNames)
        \cup ({"badtag"} \X {"t1", "t2", "t3"})

WithFaults(p, F) ==
    [p EXCEPT !.absent = {x[2] : x \in {y \in F : y[1] = "absent"}},
              !.childless = {x[2] : x \in {y \in F : y[1] = "childless"}},
              !.noref = {x[2] : x \in {y \in F : y[1] = "noref"}},
              !.badtag = {x[2] : x \in {y \in F : y[1] = "badtag"}}]

Nested == [P0 EXCEPT !.groupsA = <<"g1", "g2">>, !.src2 = "sB"]

FaultCases ==
    { Case(WithFaults(Nested, F), "to_collection", None, NoOverride) :
        F \in {{}} \cup {{x, y} : x \in Faults, y \in Faults} }

\* what a track item shows: a file, a generator, a nested sequence, or the
\* sequence it lies in
NestCases ==
    { Case([P0 EXCEPT !.src2 = s, !.sub4 = u, !.start1 = st, !.durV = dv,
                      !.durA = 6, !.in1 = 2, !.speed = sp, !.groupsA = g],
           "to_collection", None, r) :
        s \in {"m1", "m2", "sB", "sA"}, u \in {"sc1", "sc2"},
        st \in {[present |-> FALSE, text |-> 0, len |-> 0],
                [present |-> TRUE, text |-> 4, len |-> 0],
                [present |-> TRUE, text |-> 2, len |-> 0],
                [present |-> TRUE, text |-> 4, len |-> 1]},
        dv \in {8, 5}, sp \in {None, "2.0"},
        g \in {<<"g1">>, <<"g1", "g2">>},
        r \in {NoOverride, Override(10)} }

\* read_from_string with and without a requested sequence name
NameCases ==
    { Case([P0 EXCEPT !.nameA = a, !.nameB = b, !.badtag = t],
           "read_from_string", n, NoOverride) :
        a \in {"Seq1", "Seq2"}, b \in {"Seq1", "Seq2"}, t \in {{}, {"t3"}},
        n \in {None, "", "Seq1", "Seq2", "Seq3"} }

\* a track whose ObjectUID has the value of its track group's ObjectID
CollideCases ==
    { Case([P0 EXCEPT !.uidT1 = "g1", !.groupsA = g, !.src2 = s],
           "to_collection", None, NoOverride) :
        g \in {<<"g1">>, <<"g1", "g2">>, <<"g2", "g1">>}, s \in {"m1", "sB"} }

\* direct use of the Object Index
IndexCases ==
    { Case([P0 EXCEPT !.uidT1 = u, !.childless = c], "index", None, NoOverride) :
        u \in {"t1", "g1"}, c \in {{}, {"m1"}} }

Running == [kind |-> "running", value |-> <<>>, error |-> NoError]

\* the state after AdobePremiereProject.__init__ (lines 73-76)
InitCase(c) ==
    /\ doc = MkDoc(c.p)
    /\ entry = c.entry
    /\ sequence_name = c.name
    /\ frame_rate = c.rate
    /\ object_cache = <<>>
    /\ callstack = <<>>
    /\ seq_iter = 0
    /\ collection = <<>>
    /\ result = Running
    /\ resolved = <<>>
    /\ scans = <<>>
    /\ calls = 0

Init ==
    \/ \E c \in TimingCases : InitCase(c)
    \/ \E c \in RateCases : InitCase(c)
    \/ \E c \in FaultCases : InitCase(c)
    \/ \E c \in NestCases : InitCase(c)
    \/ \E c \in NameCases : InitCase(c)
    \/ \E c \in CollideCases : InitCase(c)
    \/ \E c \in IndexCases : InitCase(c)

----------------------------------------------------------------------------
(* Top-Level Driver and the steps of the walk *)

Converting == entry \in {"to_collection", "read_from_string"} /\ result.kind = "running"

\* self._root.findall("Sequence"): the root's Sequence children, in order
RECURSIVE SequenceNodesFrom(_, _)
SequenceNodesFrom(d, n) ==
    IF n > Len(d) THEN <<>>
    ELSE (IF d[n].tag = "Sequence" THEN <<n>> ELSE <<>>) \o SequenceNodesFrom(d, n + 1)

SequenceNodes(d) == SequenceNodesFrom(d, 1)

Top == callstack[Len(callstack)]

\* the walk goes on in the innermost call, with the index as ix
Continue(f, ix) ==
    /\ callstack' = [callstack EXCEPT ![Len(callstack)] = f]
    /\ SetIndex(ix)
    /\ UNCHANGED <<doc, entry, sequence_name, frame_rate, seq_iter, collection,
                   result, calls>>

\* a raise anywhere unwinds every active call and to_collection itself: the
\* caller gets the exception and none of the objects built so far
Fail(err, ix) ==
    /\ result' = [kind |-> "Error", value |-> <<>>, error |-> err]
    /\ callstack' = <<>>
    /\ collection' = <<>>
    /\ SetIndex(ix)
    /\ UNCHANGED <<doc, entry, sequence_name, frame_rate, seq_iter, calls>>

\* line 82 and line 211: the call of _stack_from_sequence_node, whose start
\* gave e; the caller's frame, if any, is the innermost of stack
Call(stack, e) ==
    IF ~e.ok THEN Fail(e.error, e.ix)
    ELSE /\ callstack' = Append(stack, e.nodes[1])
         /\ SetIndex(e.ix)
         /\ UNCHANGED <<doc, entry, sequence_name, frame_rate, seq_iter,
                        collection, result, calls>>

\* to_collection, lines 81-82: the next Sequence of the root is handed to
\* _stack_from_sequence_node, which runs up to its loop over the track groups
ToCollectionNext ==
    /\ Converting
    /\ callstack = <<>>
    /\ seq_iter < Len(SequenceNodes(doc))
    /\ Call(<<>>, Enter(doc, Index, frame_rate, SequenceNodes(doc)[seq_iter + 1]))

TrackGroupResolved(f, r) ==
    IF ~r.ok THEN Fail(r.error, r.ix)
    ELSE Continue(IF r.nodes = <<>>
                  THEN [f EXCEPT !.gi = @ + 1]
                  ELSE [f EXCEPT !.track_nodes = r.nodes, !.ti = 0, !.pc = "tracks"],
                  r.ix)

\* lines 142-145: the next track group's tracks are dereferenced
TrackGroupStep ==
    /\ Converting
    /\ callstack # <<>>
    /\ Top.pc = "groups"
    /\ Top.gi < Len(Top.top_track_group_nodes)
    /\ TrackGroupResolved(Top,
          _dereference_all(doc, Index,
              doc[Top.top_track_group_nodes[Top.gi + 1]].Tracks))

TrackResolved(f, track_node, track_kind, r) ==
    IF track_kind = ""
    THEN Fail(ParseError("Unknown track type", track_node.tag, track_node.oid), Index)
    ELSE IF ~r.ok THEN Fail(r.error, r.ix)
    ELSE Continue([f EXCEPT !.track = Track(track_kind),
                            !.last_track_end = 0,
                            !.item_nodes = r.nodes, !.ii = 0,
                            !.pc = "items"],
                  r.ix)

\* lines 146-162: the next track's kind is decided, the Track is created and
\* its track items are dereferenced
TrackStep ==
    /\ Converting
    /\ callstack # <<>>
    /\ Top.pc = "tracks"
    /\ TrackResolved(Top, doc[Top.track_nodes[Top.ti + 1]],
          TrackKind(doc[Top.track_nodes[Top.ti + 1]].tag),
          _dereference_all(doc, Index, doc[Top.track_nodes[Top.ti + 1]].TrackItems))

\* the frame f with the Gap before its next item (lines 163-178)
Gapped(f, item) ==
    [f EXCEPT !.track = GapBefore(f.track, f.last_track_end, item.Start, f.frame_rate)]

\* the caller's frame while the nested sequence is reconstructed: its
\* locals clip_in and clip_node are needed after the return
Suspended(f, clip_node) ==
    [f EXCEPT !.clip_in = ClipIn(doc, clip_node, f.frame_rate),
              !.clip_node = clip_node]

ItemResolved(f, item, r) ==
    IF ~item.hasItem THEN Fail(AttributeError("find"), Index)
    ELSE IF ~r.ok THEN Fail(r.error, r.ix)
    ELSE IF r.nodes[1] = "clip"
    THEN Continue(Place(doc, Gapped(f, item), r.nodes[3], r.nodes[2],
                        ClipIn(doc, r.nodes[2], f.frame_rate)),
                  r.ix)
    ELSE /\ Len(callstack) < MaxDepth
         /\ Call([callstack EXCEPT ![Len(callstack)] =
                     Suspended(Gapped(f, item), r.nodes[2])],
                 Enter(doc, r.ix, frame_rate, r.nodes[3]))

\* lines 163-235 for the next track item: the Gap before it, then its Clip;
\* or, for a nested sequence, the Gap and the recursive call (line 211),
\* after whose return the item is placed (ReturnStack)
TrackItemStep ==
    /\ Converting
    /\ callstack # <<>>
    /\ Top.pc = "items"
    /\ Top.ii < Len(Top.item_nodes)
    /\ ItemResolved(Top, doc[Top.item_nodes[Top.ii + 1]],
          ResolveItem(doc, Index, doc[Top.item_nodes[Top.ii + 1]],
                      Top.track.kind, Top.frame_rate))

\* the walk after a track: the next track, or the next track group
AfterTrack(f) ==
    IF f.ti = Len(f.track_nodes)
    THEN [f EXCEPT !.pc = "groups", !.gi = @ + 1]
    ELSE [f EXCEPT !.pc = "tracks"]

\* line 236: the finished track is appended to the stack
TrackDone ==
    /\ Converting
    /\ callstack # <<>>
    /\ Top.pc = "items"
    /\ Top.ii = Len(Top.item_nodes)
    /\ Continue(AfterTrack([Top EXCEPT !.stack.children = Append(@, Top.track),
                                       !.ti = @ + 1]),
                Index)

\* line 237 of the recursive call: the caller goes on with lines 212-235
ReturnToCaller(caller, stack) ==
    /\ callstack' =
          [SubSeq(callstack, 1, Len(callstack) - 1) EXCEPT
              ![Len(callstack) - 1] =
                  Place(doc, caller, stack, caller.clip_node, caller.clip_in)]
    /\ UNCHANGED <<seq_iter, collection>>

\* line 237: the stack is returned; to the caller's lines 212-235 when the
\* call was the recursive one, to to_collection's lines 83-85 otherwise
ReturnStack ==
    /\ Converting
    /\ callstack # <<>>
    /\ Top.pc = "groups"
    /\ Top.gi = Len(Top.top_track_group_nodes)
    /\ IF Len(callstack) > 1
       THEN ReturnToCaller(callstack[Len(callstack) - 1], Top.stack)
       ELSE /\ callstack' = <<>>
            /\ collection' = Append(collection, Timeline(Top.stack))
            /\ seq_iter' = seq_iter + 1
    /\ UNCHANGED <<doc, entry, sequence_name, frame_rate, object_cache, result,
                   resolved, scans, calls>>

\* the requested timeline of read_from_string (lines 61-68): the first
\* Timeline with that name, <<>> when there is none
RECURSIVE FirstNamed(_, _)
FirstNamed(coll, name) ==
    IF coll = <<>> THEN <<>>
    ELSE IF Head(coll).name = name THEN <<Head(coll)>>
    ELSE FirstNamed(Tail(coll), name)

\* "if sequence_name:" (line 61): None and the empty string are false
NameRequested_not_none(name) == name # None

NameRequested(name) == name # None /\ name # ""

NamedTimeline(timeline, name) ==
    IF timeline = <<>>
    THEN [kind |-> "Error", value |-> <<>>,
          error |-> Error("KeyError", "No sequence named", name, "")]
    ELSE [kind |-> "Timeline", value |-> timeline, error |-> NoError]

\* read_from_string, lines 60-69, given the collection to_collection returned
read_from_string_result(coll, name) ==
    IF NameRequested(name)
    THEN NamedTimeline(FirstNamed(coll, name), name)
    ELSE [kind |-> "Collection", value |-> coll, error |-> NoError]

\* line 87: to_collection returns; read_from_string then picks its result
ReturnCollection ==
    /\ Converting
    /\ callstack = <<>>
    /\ seq_iter = Len(SequenceNodes(doc))
    /\ result' = IF entry = "read_from_string"
                 THEN read_from_string_result(collection, sequence_name)
                 ELSE [kind |-> "Collection", value |-> collection, error |-> NoError]
    /\ UNCHANGED <<doc, entry, sequence_name, frame_rate, object_cache, callstack,
                   seq_iter, collection, resolved, scans, calls>>

\* the identifiers and reference nodes a caller of the index passes
ProbeIds == {"g1", "t1", "m1", "zz"}

ProbeRefs ==
    { [present |-> TRUE, ref |-> r, uref |-> u, at |-> "probe"] :
        r \in {"", "g1"}, u \in {"", "g1", "t1"} }

\* the caller of the index gets the node or the exception
IndexCall(r) ==
    /\ result' = IF r.ok THEN [kind |-> "Node", value |-> <<r.node>>, error |-> NoError]
                 ELSE [kind |-> "Error", value |-> <<>>, error |-> r.error]
    /\ SetIndex(r.ix)
    /\ calls' = calls + 1
    /\ UNCHANGED <<doc, entry, sequence_name, frame_rate, callstack, seq_iter,
                   collection>>

\* a direct call of _get_object (lines 89-97)
CallGetObject ==
    /\ entry = "index"
    /\ calls < MaxCalls
    /\ \E id_ \in ProbeIds, attr_name \in {"ObjectID", "ObjectUID"} :
          IndexCall(_get_object(doc, Index, id_, attr_name))

\* a direct call of _dereference (lines 99-109)
CallDereference ==
    /\ entry = "index"
    /\ calls < MaxCalls
    /\ \E node \in ProbeRefs : IndexCall(_dereference(doc, Index, node))

Next ==
    \/ ToCollectionNext
    \/ TrackGroupStep
    \/ TrackStep
    \/ TrackItemStep
    \/ TrackDone
    \/ ReturnStack
    \/ ReturnCollection
    \/ CallGetObject
    \/ CallDereference

Spec == Init /\ [][Next]_vars

----------------------------------------------------------------------------
(* Properties *)

Frames == {callstack[k] : k \in 1..Len(callstack)}

\* a frame whose call is waiting for the nested call above it
Waiting(k) == k < Len(callstack)

\* what a walk of the items must leave on the track: per item, a Gap of the
\* rounded distance when the item starts after the end of the one before,
\* then the item's occupant (identified by its tick provenance)
GapMark(ticks, rate) ==
    [type |-> "Gap", duration |-> round_rational_time(rescaled_to(ticks, rate)),
     at |-> <<>>]

RECURSIVE ExpectedOccupants(_, _, _)
ExpectedOccupants(items, last_end, rate) ==
    IF items = <<>> THEN <<>>
    ELSE (IF doc[Head(items)].Start > last_end
          THEN <<GapMark(doc[Head(items)].Start - last_end, rate)>> ELSE <<>>)
         \o << [type |-> "Occupant", duration |-> RationalTime(0, NoRate),
                at |-> <<doc[Head(items)].Start, doc[Head(items)].End>>] >>
         \o ExpectedOccupants(Tail(items), doc[Head(items)].End, rate)

Mark(o) ==
    IF o.type = "Gap"
    THEN [type |-> "Gap", duration |-> o.source_range.duration, at |-> <<>>]
    ELSE [type |-> "Occupant", duration |-> RationalTime(0, NoRate),
          at |-> <<o.metadata["premiere"].track_start,
                   o.metadata["premiere"].track_end>>]

Marks(children) == [k \in 1..Len(children) |-> Mark(children[k])]

\* the Gap a waiting call has already appended for the item being expanded
PendingGap(f) ==
    IF doc[f.item_nodes[f.ii + 1]].Start > f.last_track_end
    THEN <<GapMark(doc[f.item_nodes[f.ii + 1]].Start - f.last_track_end,
                   f.frame_rate)>>
    ELSE <<>>

\* C1: walking a track's items in document order with the last occupied end
\* starting at 0, exactly one Gap of the rounded distance (in frames at the
\* working frame rate) stands immediately before the occupant of every item
\* that starts after its predecessor's end, and no Gap before any other item.
Thm_C1_GapInsertion ==
    \A k \in 1..Len(callstack) :
        LET f == callstack[k] IN
        f.pc = "items" =>
            Marks(f.track.children) =
                ExpectedOccupants(SubSeq(f.item_nodes, 1, f.ii), 0, f.frame_rate)
                \o (IF Waiting(k) THEN PendingGap(f) ELSE <<>>)

\* two items placed, the second one after a hole of at least one frame
Wit_C1_GapInsertion ==
    /\ callstack # <<>>
    /\ Top.pc = "items"
    /\ Top.ii = 2
    /\ doc[Top.item_nodes[2]].Start > doc[Top.item_nodes[1]].End
    /\ Len(Top.track.children) >= 3
    /\ Top.track.children[Len(Top.track.children) - 1].type = "Gap"
    /\ Top.track.children[Len(Top.track.children) - 1].source_range.duration.value.n >= 1

\* the ticks of every item are whole frames and no item starts before the
\* end of the one before it
Aligned(ticks, rate) == (ticks * rate.n) % (PREMIERE_TICKS_PER_SECOND * rate.d) = 0

WholeFrames(ticks, rate) == (ticks * rate.n) \div (PREMIERE_TICKS_PER_SECOND * rate.d)

NonOverlapping(items, rate) ==
    /\ \A k \in 1..Len(items) :
          /\ Aligned(doc[items[k]].Start, rate)
          /\ Aligned(doc[items[k]].End, rate)
    /\ \A k \in 1..Len(items) :
          doc[items[k]].Start >= (IF k = 1 THEN 0 ELSE doc[items[k - 1]].End)

RECURSIVE SumDurations(_)
SumDurations(children) ==
    IF children = <<>> THEN 0
    ELSE Head(children).source_range.duration.value.n + SumDurations(Tail(children))

WholeDurations(children) ==
    \A k \in 1..Len(children) : children[k].source_range.duration.value.d = 1

\* C10: on a track whose items do not overlap and lie on whole frames, after
\* each item's occupant is appended the durations of all occupants appended
\* so far add up to that item's end position in frames.
Thm_C10_TrackPosition ==
    (callstack # <<>> /\ Top.pc = "items" /\ Top.ii >= 1
        /\ NonOverlapping(Top.item_nodes, Top.frame_rate))
    => /\ WholeDurations(Top.track.children)
       /\ SumDurations(Top.track.children) =
              WholeFrames(doc[Top.item_nodes[Top.ii]].End, Top.frame_rate)

\* both items placed on such a track, with a hole before each of them
Wit_C10_TrackPosition ==
    /\ callstack # <<>>
    /\ Top.pc = "items"
    /\ Top.ii = 2
    /\ NonOverlapping(Top.item_nodes, Top.frame_rate)
    /\ Len(Top.track.children) = 4
    /\ SumDurations(Top.track.children) >= 2

\* the rate the claim gives a sequence whose track groups resolved to nodes
FirstVideo(nodes) ==
    CHOOSE k \in 1..Len(nodes) :
        /\ doc[nodes[k]].tag = "VideoTrackGroup"
        /\ \A j \in 1..(k - 1) : doc[nodes[j]].tag # "VideoTrackGroup"

ClaimedRate(nodes) ==
    IF frame_rate # <<>> THEN frame_rate[1]
    ELSE IF \E k \in 1..Len(nodes) : doc[nodes[k]].tag = "VideoTrackGroup"
    THEN [n |-> PREMIERE_TICKS_PER_SECOND \div
                    GCD(PREMIERE_TICKS_PER_SECOND, doc[nodes[FirstVideo(nodes)]].FrameRate),
          d |-> doc[nodes[FirstVideo(nodes)]].FrameRate \div
                    GCD(PREMIERE_TICKS_PER_SECOND, doc[nodes[FirstVideo(nodes)]].FrameRate)]
    ELSE [n |-> 25, d |-> 1]

\* C3: every sequence, top-level or nested, is quantized at the caller's
\* override when there is one; otherwise at ticks-per-second over the
\* FrameRate of its first video track group; otherwise at 25.
Thm_C3_EffectiveFrameRate ==
    \A f \in Frames :
        /\ f.frame_rate = ClaimedRate(f.top_track_group_nodes)
        /\ \A k \in 1..Len(f.track.children) :
              /\ f.track.children[k].source_range.duration.rate =
                     ClaimedRate(f.top_track_group_nodes)
              /\ f.track.children[k].source_range.start_time.rate =
                     ClaimedRate(f.top_track_group_nodes)

\* a nested sequence with a video track group, quantized at an override
\* that differs from the group's rate
Wit_C3_EffectiveFrameRate ==
    /\ Len(callstack) = 2
    /\ frame_rate # <<>>
    /\ \E k \in 1..Len(Top.top_track_group_nodes) :
          /\ doc[Top.top_track_group_nodes[k]].tag = "VideoTrackGroup"
          /\ premiere_ticks_to_fps(doc[Top.top_track_group_nodes[k]].FrameRate)
                 # frame_rate[1]
    /\ Top.pc = "items"
    /\ Top.ii = 1
    /\ Top.track.children[1].source_range.duration.rate = frame_rate[1]

\* read_from_string has returned or raised after a conversion that succeeded
Converted ==
    /\ entry = "read_from_string"
    /\ result.kind # "running"
    /\ ~(result.kind = "Error" /\ result.error.type # "KeyError")

HasTimeline(name) == \E k \in 1..Len(collection) : collection[k].name = name

FirstTimeline(name) ==
    collection[CHOOSE k \in 1..Len(collection) :
                  /\ collection[k].name = name
                  /\ \A j \in 1..(k - 1) : collection[j].name # name]

\* the result the claim gives a request for name
AnswersRequest(name) ==
    IF HasTimeline(name)
    THEN result.kind = "Timeline" /\ result.value = <<FirstTimeline(name)>>
         /\ result.value[1].name = name
    ELSE result.kind = "Error" /\ result.error.type = "KeyError"

\* C4 as stated: for every sequence name the caller passes, the result is
\* the Timeline of that name, or KeyError when there is none.
Orig_C4_NamedSequence ==
    (Converted /\ sequence_name # None) => AnswersRequest(sequence_name)

\* C4 as amended: for every non-empty sequence name the caller passes, the
\* result is the first Timeline of that name, or KeyError (not the parse
\* error) when there is none; the empty name is no request and yields the
\* whole Collection, as does no name.
Thm_C4_NamedSequence ==
    Converted =>
        IF sequence_name \notin {None, ""}
        THEN AnswersRequest(sequence_name)
        ELSE result.kind = "Collection" /\ result.value = collection

\* a name that two sequences of the document carry was requested
Wit_C4_NamedSequence ==
    /\ Converted
    /\ sequence_name \notin {None, ""}
    /\ result.kind = "Timeline"
    /\ Cardinality({k \in 1..Len(collection) : collection[k].name = sequence_name}) = 2

\* the clips of the innermost call's track that show a media file
ExternalClips ==
    IF callstack = <<>> THEN {}
    ELSE {k \in 1..Len(Top.track.children) :
            /\ Top.track.children[k].type = "Clip"
            /\ Top.track.children[k].media_reference[1].type = "ExternalReference"}

\* the media file of the documents, and its stream for a track kind
TheMedia == doc[Find(doc, "ObjectUID", "m1")]

TheStream(kind) ==
    doc[Find(doc, "ObjectID", IF kind = "Video" THEN "vs1" ELSE "as1")]

WholeFrameCount(ticks, rate) == Rat(round(rescaled_to(ticks, rate).value), 1)

\* C5: the available range of an external reference starts at the media's
\* Start converted to the working frame rate and rounded to whole frames
\* whenever a Start element is present, and at zero only when it is absent;
\* its duration is the Duration of the VideoStream on a Video track and of
\* the AudioStream on an Audio track, converted and rounded the same way.
Orig_C5_AvailableRange ==
    \A k \in ExternalClips :
        LET range == Top.track.children[k].media_reference[1].available_range IN
        /\ range.start_time.value =
               IF TheMedia.MediaStart.present
               THEN WholeFrameCount(TheMedia.MediaStart.text, Top.frame_rate)
               ELSE Rat(0, 1)
        /\ range.duration.value =
               WholeFrameCount(TheStream(Top.track.kind).Duration, Top.frame_rate)

\* a sequence has a video track group when one of its track group
\* references names a VideoTrackGroup object
HasVideoGroup(sequence_node) ==
    \E k \in 1..Len(doc[sequence_node].TrackGroups) :
        LET n == Find(doc, "ObjectID", doc[sequence_node].TrackGroups[k].ref) IN
        n # 0 /\ doc[n].tag = "VideoTrackGroup"

CarriesFrameRate(stack) ==
    /\ "premiere" \in DOMAIN stack.metadata
    /\ "frame_rate" \in DOMAIN stack.metadata["premiere"]

\* C6: the Stack of every sequence that has a video track group carries the
\* group's FrameRate interval in metadata['premiere']['frame_rate'], also
\* after its parent has placed it on a track and attached the track item's
\* tick provenance.
Orig_C6_FrameRateProvenance ==
    \A f \in Frames :
        /\ HasVideoGroup(f.sequence_node) => CarriesFrameRate(f.stack)
        /\ \A k \in 1..Len(f.track.children) :
              (f.track.children[k].type = "Stack"
                  /\ HasVideoGroup(f.track.children[k].src))
              => CarriesFrameRate(f.track.children[k])

\* C7: the reconstruction never expands a sequence without bound: the
\* chain of active reconstructions is as deep as the sequences nest, so
\* never deeper than the number of sequences of the document.
Orig_C7_BoundedRecursion ==
    Len(callstack) <= Len(SequenceNodes(doc))

\* C8: every resolution by ObjectID returned the node whose ObjectID is the
\* value asked for, and every resolution by ObjectUID the node whose
\* ObjectUID is the value asked for.
Orig_C8_KindedCache ==
    \A e \in DOMAIN resolved : AttrOf(doc[e[3]], e[1]) = e[2]

\* C9: once an identifier is resolved, its cache entry stays and every later
\* resolution of it returns that same node without another scan of the
\* document; every node returned is the cached one; a resolution that fails
\* leaves no cache entry for its identifier.
Thm_C9_Memoized ==
    [][ /\ \A id_ \in DOMAIN object_cache :
              /\ id_ \in DOMAIN object_cache'
              /\ object_cache'[id_] = object_cache[id_]
              /\ id_ \in DOMAIN scans
              /\ scans[id_] >= 1
              /\ scans'[id_] = scans[id_]
        /\ \A e \in DOMAIN resolved' :
              /\ e[2] \in DOMAIN object_cache'
              /\ object_cache'[e[2]] = e[3]
        /\ (result'.kind = "Error" /\ result'.error.msg = "Couldn't find object")
              => result'.error.b \notin DOMAIN object_cache'
      ]_vars

\* an identifier resolved at least three times with one scan of the document
Wit_C9_Memoized ==
    \E e \in DOMAIN resolved :
        /\ resolved[e] >= 3
        /\ scans[e[2]] = 1
        /\ object_cache[e[2]] = e[3]

\* The failures of a document, found by walking it without building anything.
\* A reference resolves as the object index resolves it: to the node cached
\* for its identifier when there is one, else to the first node that carries
\* the identifier and has children; 0 when there is neither.
Lookup(attr_name, id_) ==
    IF id_ \in DOMAIN object_cache THEN object_cache[id_]
    ELSE LET hits == {n \in 1..Len(doc) :
                        AttrOf(doc[n], attr_name) = id_ /\ doc[n].len > 0}
             first == Find(doc, attr_name, id_)
         IN  IF first \in hits THEN first ELSE 0

Target(ref) ==
    IF ref.ref # "" THEN Lookup("ObjectID", ref.ref)
    ELSE Lookup("ObjectUID", ref.uref)

\* the failure of following one reference element, NoError when it resolves
RefFailure(ref) ==
    IF ~ref.present
    THEN Error("AttributeError", "'NoneType' object has no attribute 'get'", "", "")
    ELSE IF ref.ref = "" /\ ref.uref = ""
    THEN ParseError("Node has neither ObjectRef nor ObjectURef attribute", ref.at, "")
    ELSE IF Target(ref) = 0
    THEN ParseError("Couldn't find object",
                    IF ref.ref # "" THEN "ObjectID" ELSE "ObjectUID",
                    IF ref.ref # "" THEN ref.ref ELSE ref.uref)
    ELSE NoError

RECURSIVE RefsFailure(_)
RefsFailure(refs) ==
    IF refs = <<>> THEN NoError
    ELSE IF RefFailure(Head(refs)) # NoError THEN RefFailure(Head(refs))
    ELSE RefsFailure(Tail(refs))

Targets(refs) == [k \in 1..Len(refs) |-> Target(refs[k])]

\* the walk was cut off below the depth explored
TooDeep == Error("", "deeper than explored", "", "")

RECURSIVE WalkSequence(_, _, _)
RECURSIVE WalkRefs(_, _, _, _, _)
RECURSIVE VisitAll(_, _, _, _, _)
RECURSIVE Visit(_, _, _, _, _)

\* the first failure on the way from a track item n to what it shows
WalkSource(n, kind, depth, batch) ==
    IF doc[n].Media.present
    THEN LET e == RefFailure(doc[n].Media)
             m == doc[Target(doc[n].Media)]
         IN  IF e # NoError THEN e
             ELSE IF m.FileKey = "" THEN NoError
             ELSE RefFailure(IF kind = "Video" THEN m.VideoStream ELSE m.AudioStream)
    ELSE LET e == RefFailure(doc[n].Sequence)
         IN  IF e # NoError THEN e
             ELSE WalkSequence(Target(doc[n].Sequence), depth + 1, batch)

WalkClip(n, kind, depth, batch) ==
    IF ~doc[n].hasClip THEN AttributeError("find")
    ELSE LET e == RefFailure(doc[n].Source)
         IN  IF e # NoError THEN e
             ELSE WalkSource(Target(doc[n].Source), kind, depth, batch)

WalkItem(n, kind, depth, batch) ==
    IF ~doc[n].hasItem THEN AttributeError("find")
    ELSE LET e == RefFailure(doc[n].SubClip)
             sub == doc[Target(doc[n].SubClip)]
         IN  IF e # NoError THEN e
             ELSE IF RefFailure(sub.Clip) # NoError THEN RefFailure(sub.Clip)
             ELSE WalkClip(Target(sub.Clip), kind, depth, batch)

\* the first failure in the subtree of the node n of a level
Visit(level, n, kind, depth, batch) ==
    IF level = "group"
    THEN WalkRefs("track", doc[n].Tracks, kind, depth, batch)
    ELSE IF level = "track"
    THEN IF doc[n].tag \notin {"VideoClipTrack", "AudioClipTrack"}
         THEN ParseError("Unknown track type", doc[n].tag, doc[n].oid)
         ELSE WalkRefs("item", doc[n].TrackItems,
                       IF doc[n].tag = "VideoClipTrack" THEN "Video" ELSE "Audio",
                       depth, batch)
    ELSE WalkItem(n, kind, depth, batch)

VisitAll(level, nodes, kind, depth, batch) ==
    IF nodes = <<>> THEN NoError
    ELSE LET e == Visit(level, Head(nodes), kind, depth, batch)
         IN  IF e # NoError THEN e
             ELSE VisitAll(level, Tail(nodes), kind, depth, batch)

\* the first failure below the references refs of a level.  batch: all of
\* them are followed before the first node is visited; otherwise each is
\* followed when its node's turn comes, the strict depth-first order
WalkRefs(level, refs, kind, depth, batch) ==
    IF batch
    THEN LET e == RefsFailure(refs)
         IN  IF e # NoError THEN e
             ELSE VisitAll(level, Targets(refs), kind, depth, batch)
    ELSE IF refs = <<>> THEN NoError
    ELSE LET e == RefFailure(Head(refs))
             v == Visit(level, Target(Head(refs)), kind, depth, batch)
         IN  IF e # NoError THEN e
             ELSE IF v # NoError THEN v
             ELSE WalkRefs(level, Tail(refs), kind, depth, batch)

WalkSequence(n, depth, batch) ==
    IF depth > MaxDepth THEN TooDeep
    ELSE WalkRefs("group", doc[n].TrackGroups, "", depth, batch)

RECURSIVE WalkDocument(_, _)
WalkDocument(sequence_nodes, batch) ==
    IF sequence_nodes = <<>> THEN NoError
    ELSE IF doc[Head(sequence_nodes)].len = 0 THEN AttributeError("text")
    ELSE LET e == WalkSequence(Head(sequence_nodes), 1, batch)
         IN  IF e # NoError THEN e
             ELSE WalkDocument(Tail(sequence_nodes), batch)

\* the first failure of the document in strict document-order depth-first
\* traversal, and in the traversal that follows a level's references first
FirstFailureDepthFirst == WalkDocument(SequenceNodes(doc), FALSE)
FirstFailureLevelFirst == WalkDocument(SequenceNodes(doc), TRUE)

\* to_collection has returned or raised
Finished == entry = "to_collection" /\ result.kind # "running"

\* an error reaches the caller alone: no Stack, Timeline or Collection
NothingOnError ==
    (entry # "index" /\ result.kind = "Error" /\ result.error.type # "KeyError")
    => /\ result.value = <<>>
       /\ callstack = <<>>
       /\ collection = <<>>

\* the caller gets the whole Collection when the walk meets no failure, and
\* otherwise exactly the error first
RaisesExactly(first) ==
    IF first = NoError
    THEN /\ result.kind = "Collection"
         /\ Len(result.value) = Len(SequenceNodes(doc))
    ELSE /\ result.kind = "Error"
         /\ result.error = first

\* C2 as stated: a conversion is all-or-nothing, and the one error raised
\* is that of the first failure met in the document-order depth-first
\* traversal of the document.
Orig_C2_AllOrNothing ==
    /\ NothingOnError
    /\ Finished => RaisesExactly(FirstFailureDepthFirst)

\* C2 as amended: a conversion is all-or-nothing, and the one error raised
\* is that of the first failure met when the sequences are walked in document
\* order with the references of a level (a sequence's track groups, a
\* group's tracks, a track's items) all followed before the first of their
\* nodes is visited.
Thm_C2_AllOrNothing ==
    /\ NothingOnError
    /\ Finished => RaisesExactly(FirstFailureLevelFirst)

\* a conversion raised for a failure that the strict depth-first traversal
\* meets only after another one
Wit_C2_AllOrNothing ==
    /\ Finished
    /\ result.kind = "Error"
    /\ result.error = FirstFailureLevelFirst
    /\ FirstFailureDepthFirst \notin {NoError, TooDeep, FirstFailureLevelFirst}

====
